---- MODULE Spec2Model ----
(***************************************************************************)
(* A model of the AssemblyAI Go client (client/assemblyai/client.go): the  *)
(* response decoder getData with its status check and JSON decoding, and   *)
(* the three operations UploadLocalFile, Transcript and PollTranscript.    *)
(* Texts (bodies, field values, error messages) are sequences of bytes, a  *)
(* byte being written as the string of its ASCII character, or as "\\xNN"  *)
(* when it has no printable one; time is counted in ticks of five seconds. *)
(***************************************************************************)
EXTENDS Integers, Sequences, FiniteSets, TLC

VARIABLES
    pc,          \* position of the current call: "idle", "check", "do", "sleep", "done"
    op,          \* the operation called: "none", "upload", "transcript", "poll", "status"
    settings,    \* the PollSettings in force for the current PollTranscript call
    now,         \* the wall clock, time.Now(), in ticks
    start,       \* the clock reading PollTranscript took for its deadline
    timeoutTime, \* PollTranscript's deadline
    resp,        \* the last answer of client.Do (meaningful when gets > 0)
    data,        \* the payload the last getData decoded
    result,      \* the string the call returned
    err,         \* the error the call returned
    gets,        \* requests issued by the current call
    sleeps,      \* time.Sleep calls made by the current call
    slept,       \* the durations passed to time.Sleep by the current call
    openBodies,  \* response bodies received by the current call and not closed
    queuedBefore, \* every answer of the current call before the last was 2xx "queued"
    checkedCode, \* the argument of isValidStatus
    checkedOk    \* the value isValidStatus returned for checkedCode

vars ==
    <<pc, op, settings, now, start, timeoutTime, resp, data, result, err, gets,
      sleeps, slept, openBodies, queuedBefore,
      checkedCode, checkedOk>>

-----------------------------------------------------------------------------
(* Bounds of the model *)

\* The clock reads 0 or MaxStart when a PollTranscript call starts.
MaxStart ==
    1
\* A request takes 0..MaxDelay ticks; time.Sleep(d) returns d or d + MaxDelay
\* ticks later.
MaxDelay ==
    1
\* A PollTranscript call is followed for its first MaxGets requests: as many
\* as the default settings allow when every sleep lasts its five seconds.
MaxGets ==
    12
\* Caller-supplied PollSettings: frequency in -1..MaxFrequency, timeout in -1..MaxTimeout.
MaxFrequency ==
    2
MaxTimeout ==
    3
\* isValidStatus is examined on the codes -MaxCode..MaxCode.
MaxCode ==
    9999

-----------------------------------------------------------------------------
(* Time: the clock counts ticks of five seconds, the default poll frequency. *)

TickSeconds ==
    5

-----------------------------------------------------------------------------
(* Bytes and runes *)

\* F(e) with e evaluated once.
With(e, F(_)) ==
    CHOOSE y \in {F(x) : x \in {e}} : TRUE

\* The byte of value k is Bytes[k + 1].
Bytes ==
    <<"\\x00", "\\x01", "\\x02", "\\x03", "\\x04", "\\x05", "\\x06", "\\x07",
      "\\x08", "\t", "\n", "\\x0b", "\f", "\r", "\\x0e", "\\x0f", "\\x10",
      "\\x11", "\\x12", "\\x13", "\\x14", "\\x15", "\\x16", "\\x17", "\\x18",
      "\\x19", "\\x1a", "\\x1b", "\\x1c", "\\x1d", "\\x1e", "\\x1f", " ",
      "!", "\"", "#", "$", "%", "&", "'", "(", ")", "*", "+", ",", "-", ".",
      "/", "0", "1", "2", "3", "4", "5", "6", "7", "8", "9", ":", ";", "<",
      "=", ">", "?", "@", "A", "B", "C", "D", "E", "F", "G", "H", "I", "J",
      "K", "L", "M", "N", "O", "P", "Q", "R", "S", "T", "U", "V", "W", "X",
      "Y", "Z", "[", "\\", "]", "^", "_", "\\x60", "a", "b", "c", "d", "e",
      "f", "g", "h", "i", "j", "k", "l", "m", "n", "o", "p", "q", "r", "s",
      "t", "u", "v", "w", "x", "y", "z", "{", "|", "}", "~", "\\x7f",
      "\\x80", "\\x81", "\\x82", "\\x83", "\\x84", "\\x85", "\\x86", "\\x87",
      "\\x88", "\\x89", "\\x8a", "\\x8b", "\\x8c", "\\x8d", "\\x8e", "\\x8f",
      "\\x90", "\\x91", "\\x92", "\\x93", "\\x94", "\\x95", "\\x96", "\\x97",
      "\\x98", "\\x99", "\\x9a", "\\x9b", "\\x9c", "\\x9d", "\\x9e", "\\x9f",
      "\\xa0", "\\xa1", "\\xa2", "\\xa3", "\\xa4", "\\xa5", "\\xa6", "\\xa7",
      "\\xa8", "\\xa9", "\\xaa", "\\xab", "\\xac", "\\xad", "\\xae", "\\xaf",
      "\\xb0", "\\xb1", "\\xb2", "\\xb3", "\\xb4", "\\xb5", "\\xb6", "\\xb7",
      "\\xb8", "\\xb9", "\\xba", "\\xbb", "\\xbc", "\\xbd", "\\xbe", "\\xbf",
      "\\xc0", "\\xc1", "\\xc2", "\\xc3", "\\xc4", "\\xc5", "\\xc6", "\\xc7",
      "\\xc8", "\\xc9", "\\xca", "\\xcb", "\\xcc", "\\xcd", "\\xce", "\\xcf",
      "\\xd0", "\\xd1", "\\xd2", "\\xd3", "\\xd4", "\\xd5", "\\xd6", "\\xd7",
      "\\xd8", "\\xd9", "\\xda", "\\xdb", "\\xdc", "\\xdd", "\\xde", "\\xdf",
      "\\xe0", "\\xe1", "\\xe2", "\\xe3", "\\xe4", "\\xe5", "\\xe6", "\\xe7",
      "\\xe8", "\\xe9", "\\xea", "\\xeb", "\\xec", "\\xed", "\\xee", "\\xef",
      "\\xf0", "\\xf1", "\\xf2", "\\xf3", "\\xf4", "\\xf5", "\\xf6", "\\xf7",
      "\\xf8", "\\xf9", "\\xfa", "\\xfb", "\\xfc", "\\xfd", "\\xfe", "\\xff">>

\* The value of the byte c.
Code(c) ==
    (CHOOSE k \in 1..256 : Bytes[k] = c) - 1

Digits ==
    <<"0", "1", "2", "3", "4", "5", "6", "7", "8", "9">>

HexDigits ==
    <<"0", "1", "2", "3", "4", "5", "6", "7", "8", "9", "a", "b", "c", "d", "e", "f">>

UpperCase ==
    <<"A", "B", "C", "D", "E", "F", "G", "H", "I", "J", "K", "L", "M",
      "N", "O", "P", "Q", "R", "S", "T", "U", "V", "W", "X", "Y", "Z">>

LowerCase ==
    <<"a", "b", "c", "d", "e", "f", "g", "h", "i", "j", "k", "l", "m",
      "n", "o", "p", "q", "r", "s", "t", "u", "v", "w", "x", "y", "z">>

IsDigit(c) ==
    \E k \in 1..10 : Digits[k] = c

\* c - '0'
DigitValue(c) ==
    (CHOOSE k \in 1..10 : Digits[k] = c) - 1

\* The bytes below utf8.RuneSelf.
AsciiBytes ==
    {Bytes[k] : k \in 1..128}

\* The bytes below ' '.
ControlBytes ==
    {Bytes[k] : k \in 1..32}

\* unicode.ReplacementChar, utf8.RuneError
RuneError ==
    65533

\* n in hexadecimal, on w digits.
Hex(n, w) ==
    [k \in 1..w |-> HexDigits[((n \div (16 ^ (w - k))) % 16) + 1]]

\* utf8.DecodeRune on the bytes of s from position i: [rune, size]. A byte
\* that begins no well-formed encoding is [RuneError, 1].
DecodeRune(s, i) ==
    IF s[i] \in AsciiBytes THEN [rune |-> Code(s[i]), size |-> 1]
    ELSE With([k \in 0..3 |-> IF i + k <= Len(s) THEN Code(s[i + k]) ELSE 0],
              LAMBDA b :
         LET cont(x) == 128 <= x /\ x <= 191
         IN  IF 194 <= b[0] /\ b[0] <= 223 /\ cont(b[1])
             THEN [rune |-> (b[0] - 192) * 64 + (b[1] - 128), size |-> 2]
             ELSE IF /\ 224 <= b[0] /\ b[0] <= 239
                     /\ (IF b[0] = 224 THEN 160 ELSE 128) <= b[1]
                     /\ b[1] <= (IF b[0] = 237 THEN 159 ELSE 191)
                     /\ cont(b[2])
             THEN [rune |-> (b[0] - 224) * 4096 + (b[1] - 128) * 64 + (b[2] - 128),
                   size |-> 3]
             ELSE IF /\ 240 <= b[0] /\ b[0] <= 244
                     /\ (IF b[0] = 240 THEN 144 ELSE 128) <= b[1]
                     /\ b[1] <= (IF b[0] = 244 THEN 143 ELSE 191)
                     /\ cont(b[2])
                     /\ cont(b[3])
             THEN [rune |-> (b[0] - 240) * 262144 + (b[1] - 128) * 4096
                            + (b[2] - 128) * 64 + (b[3] - 128),
                   size |-> 4]
             ELSE [rune |-> RuneError, size |-> 1])

\* utf8.EncodeRune: a surrogate or a value above U+10FFFF is encoded as
\* RuneError.
EncodeRune(r) ==
    LET v == IF r < 0 \/ r > 1114111 \/ (55296 <= r /\ r <= 57343)
             THEN RuneError ELSE r
    IN  IF v < 128 THEN <<Bytes[v + 1]>>
        ELSE IF v < 2048
             THEN <<Bytes[192 + (v \div 64) + 1], Bytes[128 + (v % 64) + 1]>>
        ELSE IF v < 65536
             THEN <<Bytes[224 + (v \div 4096) + 1],
                    Bytes[128 + ((v \div 64) % 64) + 1],
                    Bytes[128 + (v % 64) + 1]>>
        ELSE <<Bytes[240 + (v \div 262144) + 1],
               Bytes[128 + ((v \div 4096) % 64) + 1],
               Bytes[128 + ((v \div 64) % 64) + 1],
               Bytes[128 + (v % 64) + 1]>>

-----------------------------------------------------------------------------
(* strconv and regexp *)

\* strconv.Itoa
ItoaNat(n) ==
    LET digits[k \in 0..n] ==
            IF k < 10 THEN <<Digits[k + 1]>>
            ELSE digits[k \div 10] \o <<Digits[(k % 10) + 1]>>
    IN  digits[n]

Itoa(n) ==
    IF n < 0 THEN <<"-">> \o ItoaNat(-n) ELSE ItoaNat(n)

\* regexp `^2..` MatchString: anchored at the start only; "." is any character
\* but a newline.
okStatusRegexMatch(s) ==
    /\ Len(s) >= 3
    /\ s[1] = "2"
    /\ s[2] # "\n"
    /\ s[3] # "\n"

isValidStatus(statusCode) ==
    okStatusRegexMatch(Itoa(statusCode))

BackslashX ==
    <<"\\", "x">>
BackslashU ==
    <<"\\", "u">>
\* strconv.Quote(string(rune(c))) without its two quotes, for a byte c other
\* than the double quote.
QuotedRune(c) ==
    With(Code(c), LAMBDA v :
         CASE v = 7 -> <<"\\", "a">>
           [] v = 8 -> <<"\\", "b">>
           [] v = 12 -> <<"\\", "f">>
           [] v = 10 -> <<"\\", "n">>
           [] v = 13 -> <<"\\", "r">>
           [] v = 9 -> <<"\\", "t">>
           [] v = 11 -> <<"\\", "v">>
           [] v = 92 -> <<"\\", "\\">>
           [] v \notin {7, 8, 9, 10, 11, 12, 13} /\ (v < 32 \/ v = 127)
                -> BackslashX \o Hex(v, 2)
           [] (128 <= v /\ v <= 160) \/ v = 173 -> BackslashU \o Hex(v, 4)
           [] OTHER -> EncodeRune(v))


-----------------------------------------------------------------------------
(* Errors: kind tells which statement made the error, msg is err.Error().   *)

Error(kind, msg) ==
    [kind |-> kind, msg |-> msg]

NoError ==
    Error("nil", << >>)

-----------------------------------------------------------------------------
(* encoding/json, the scanner: checkValid(data, scan) steps the scanner     *)
(* over the bytes of the document and ends it with eof().                    *)

InvalidCharacter ==
    <<"i", "n", "v", "a", "l", "i", "d", " ", "c", "h", "a", "r", "a", "c", "t", "e", "r", " ">>
UnexpectedEnd ==
    <<"u", "n", "e", "x", "p", "e", "c", "t", "e", "d", " ", "e", "n", "d", " ", "o", "f", " ", "J", "S", "O", "N", " ", "i", "n", "p", "u", "t">>
ExceededMaxDepth ==
    <<"e", "x", "c", "e", "e", "d", "e", "d", " ", "m", "a", "x", " ", "d", "e", "p", "t", "h">>
LookingForValue ==
    <<"l", "o", "o", "k", "i", "n", "g", " ", "f", "o", "r", " ", "b", "e", "g", "i", "n", "n", "i", "n", "g", " ", "o", "f", " ", "v", "a", "l", "u", "e">>
LookingForKey ==
    <<"l", "o", "o", "k", "i", "n", "g", " ", "f", "o", "r", " ", "b", "e", "g", "i", "n", "n", "i", "n", "g", " ", "o", "f", " ", "o", "b", "j", "e", "c", "t", " ", "k", "e", "y", " ", "s", "t", "r", "i", "n", "g">>
AfterObjectKey ==
    <<"a", "f", "t", "e", "r", " ", "o", "b", "j", "e", "c", "t", " ", "k", "e", "y">>
AfterObjectPair ==
    <<"a", "f", "t", "e", "r", " ", "o", "b", "j", "e", "c", "t", " ", "k", "e", "y", ":", "v", "a", "l", "u", "e", " ", "p", "a", "i", "r">>
AfterArrayElement ==
    <<"a", "f", "t", "e", "r", " ", "a", "r", "r", "a", "y", " ", "e", "l", "e", "m", "e", "n", "t">>
AfterTopLevel ==
    <<"a", "f", "t", "e", "r", " ", "t", "o", "p", "-", "l", "e", "v", "e", "l", " ", "v", "a", "l", "u", "e">>
InStringLiteral ==
    <<"i", "n", " ", "s", "t", "r", "i", "n", "g", " ", "l", "i", "t", "e", "r", "a", "l">>
InStringEscape ==
    <<"i", "n", " ", "s", "t", "r", "i", "n", "g", " ", "e", "s", "c", "a", "p", "e", " ", "c", "o", "d", "e">>
InUnicodeEscape ==
    <<"i", "n", " ", "\\", "u", " ", "h", "e", "x", "a", "d", "e", "c", "i", "m", "a", "l", " ", "c", "h", "a", "r", "a", "c", "t", "e", "r", " ", "e", "s", "c", "a", "p", "e">>
InNumericLiteral ==
    <<"i", "n", " ", "n", "u", "m", "e", "r", "i", "c", " ", "l", "i", "t", "e", "r", "a", "l">>
AfterDecimalPoint ==
    <<"a", "f", "t", "e", "r", " ", "d", "e", "c", "i", "m", "a", "l", " ", "p", "o", "i", "n", "t", " ", "i", "n", " ", "n", "u", "m", "e", "r", "i", "c", " ", "l", "i", "t", "e", "r", "a", "l">>
InExponent ==
    <<"i", "n", " ", "e", "x", "p", "o", "n", "e", "n", "t", " ", "o", "f", " ", "n", "u", "m", "e", "r", "i", "c", " ", "l", "i", "t", "e", "r", "a", "l">>
InLiteralTrue ==
    <<"i", "n", " ", "l", "i", "t", "e", "r", "a", "l", " ", "t", "r", "u", "e", " ", "(", "e", "x", "p", "e", "c", "t", "i", "n", "g", " ", "'">>
InLiteralFalse ==
    <<"i", "n", " ", "l", "i", "t", "e", "r", "a", "l", " ", "f", "a", "l", "s", "e", " ", "(", "e", "x", "p", "e", "c", "t", "i", "n", "g", " ", "'">>
InLiteralNull ==
    <<"i", "n", " ", "l", "i", "t", "e", "r", "a", "l", " ", "n", "u", "l", "l", " ", "(", "e", "x", "p", "e", "c", "t", "i", "n", "g", " ", "'">>

maxNestingDepth ==
    10000

isSpace(c) ==
    c \in {" ", "\t", "\r", "\n"}

IsHexDigit(c) ==
    \/ IsDigit(c)
    \/ c \in {"a", "b", "c", "d", "e", "f", "A", "B", "C", "D", "E", "F"}

\* quoteChar formats c as a quoted character literal.
quoteChar(c) ==
    IF c = "'" THEN <<"'", "\\", "'", "'">>
    ELSE IF c = "\"" THEN <<"'", "\"", "'">>
    ELSE <<"'">> \o QuotedRune(c) \o <<"'">>

\* scanner.reset. Beside the scanner's fields the record keeps what the
\* decoder notes as it walks the document with the scanner: top, the type of
\* the document's value, and members, for each member of a top-level object
\* the positions of its key literal (ks..ke), the type of its value (vt) and,
\* of a string value, the positions of the literal (vs..ve).
ResetScanner ==
    [step |-> "stateBeginValue", parseState |-> << >>, endTop |-> FALSE,
     err |-> NoError, top |-> "", members |-> << >>]

\* scanner.error
ScannerError(s, c, context) ==
    [s EXCEPT !.step = "stateError",
              !.err = Error("json", InvalidCharacter \o quoteChar(c) \o <<" ">>
                                    \o context)]

\* The literals true, false and null: the byte wanted in each state, and the
\* state it leads to.
LiteralStates ==
    [stateT |-> <<"r", "stateTr", InLiteralTrue>>,
     stateTr |-> <<"u", "stateTru", InLiteralTrue>>,
     stateTru |-> <<"e", "stateEndValue", InLiteralTrue>>,
     stateF |-> <<"a", "stateFa", InLiteralFalse>>,
     stateFa |-> <<"l", "stateFal", InLiteralFalse>>,
     stateFal |-> <<"s", "stateFals", InLiteralFalse>>,
     stateFals |-> <<"e", "stateEndValue", InLiteralFalse>>,
     stateN |-> <<"u", "stateNu", InLiteralNull>>,
     stateNu |-> <<"l", "stateNul", InLiteralNull>>,
     stateNul |-> <<"l", "stateEndValue", InLiteralNull>>]

pushParseState(s, c, newParseState, successState) ==
    IF Len(s.parseState) + 1 <= maxNestingDepth
    THEN [s EXCEPT !.parseState = Append(s.parseState, newParseState),
                   !.step = successState]
    ELSE ScannerError([s EXCEPT !.parseState = Append(s.parseState, newParseState)],
                      c, ExceededMaxDepth)

popParseState(s) ==
    IF Len(s.parseState) = 1
    THEN [s EXCEPT !.parseState = << >>, !.step = "stateEndTop", !.endTop = TRUE]
    ELSE [s EXCEPT !.parseState = SubSeq(s.parseState, 1, Len(s.parseState) - 1),
                   !.step = "stateEndValue"]

stateEndTop(s, c) ==
    IF ~isSpace(c) THEN ScannerError(s, c, AfterTopLevel) ELSE s

stateEndValue(s, c) ==
    LET n == Len(s.parseState)
    IN  IF n = 0
        THEN IF ~isSpace(c)
             THEN ScannerError([s EXCEPT !.endTop = TRUE], c, AfterTopLevel)
             ELSE [s EXCEPT !.step = "stateEndTop", !.endTop = TRUE]
        ELSE IF isSpace(c) THEN [s EXCEPT !.step = "stateEndValue"]
        ELSE IF s.parseState[n] = "parseObjectKey"
        THEN IF c = ":"
             THEN [s EXCEPT !.parseState[n] = "parseObjectValue",
                            !.step = "stateBeginValue"]
             ELSE ScannerError(s, c, AfterObjectKey)
        ELSE IF s.parseState[n] = "parseObjectValue"
        THEN IF c = ","
             THEN [s EXCEPT !.parseState[n] = "parseObjectKey",
                            !.step = "stateBeginString"]
             ELSE IF c = "}" THEN popParseState(s)
             ELSE ScannerError(s, c, AfterObjectPair)
        ELSE IF c = "," THEN [s EXCEPT !.step = "stateBeginValue"]
             ELSE IF c = "]" THEN popParseState(s)
             ELSE ScannerError(s, c, AfterArrayElement)

stateBeginValue(s, c) ==
    IF isSpace(c) THEN s
    ELSE IF c = "{" THEN pushParseState(s, c, "parseObjectKey", "stateBeginStringOrEmpty")
    ELSE IF c = "[" THEN pushParseState(s, c, "parseArrayValue", "stateBeginValueOrEmpty")
    ELSE IF c = "\"" THEN [s EXCEPT !.step = "stateInString"]
    ELSE IF c = "-" THEN [s EXCEPT !.step = "stateNeg"]
    ELSE IF c = "0" THEN [s EXCEPT !.step = "state0"]
    ELSE IF c = "t" THEN [s EXCEPT !.step = "stateT"]
    ELSE IF c = "f" THEN [s EXCEPT !.step = "stateF"]
    ELSE IF c = "n" THEN [s EXCEPT !.step = "stateN"]
    ELSE IF IsDigit(c) THEN [s EXCEPT !.step = "state1"]
    ELSE ScannerError(s, c, LookingForValue)

stateBeginString(s, c) ==
    IF isSpace(c) THEN s
    ELSE IF c = "\"" THEN [s EXCEPT !.step = "stateInString"]
    ELSE ScannerError(s, c, LookingForKey)

state0(s, c) ==
    IF c = "." THEN [s EXCEPT !.step = "stateDot"]
    ELSE IF c \in {"e", "E"} THEN [s EXCEPT !.step = "stateE"]
    ELSE stateEndValue(s, c)

stateESign(s, c) ==
    IF IsDigit(c) THEN [s EXCEPT !.step = "stateE0"]
    ELSE ScannerError(s, c, InExponent)

\* scanner.step: the state function s.step applied to the byte c.
ScannerStep(s, c) ==
    CASE s.step = "stateBeginValue" -> stateBeginValue(s, c)
      [] s.step = "stateBeginValueOrEmpty" ->
            IF isSpace(c) THEN s
            ELSE IF c = "]" THEN stateEndValue(s, c)
            ELSE stateBeginValue(s, c)
      [] s.step = "stateBeginStringOrEmpty" ->
            IF isSpace(c) THEN s
            ELSE IF c = "}"
            THEN stateEndValue([s EXCEPT !.parseState[Len(s.parseState)] =
                                             "parseObjectValue"], c)
            ELSE stateBeginString(s, c)
      [] s.step = "stateBeginString" -> stateBeginString(s, c)
      [] s.step = "stateEndValue" -> stateEndValue(s, c)
      [] s.step = "stateEndTop" -> stateEndTop(s, c)
      [] s.step = "stateInString" ->
            IF c = "\"" THEN [s EXCEPT !.step = "stateEndValue"]
            ELSE IF c = "\\" THEN [s EXCEPT !.step = "stateInStringEsc"]
            ELSE IF c \in ControlBytes THEN ScannerError(s, c, InStringLiteral)
            ELSE s
      [] s.step = "stateInStringEsc" ->
            IF c \in {"b", "f", "n", "r", "t", "\\", "/", "\""}
            THEN [s EXCEPT !.step = "stateInString"]
            ELSE IF c = "u" THEN [s EXCEPT !.step = "stateInStringEscU"]
            ELSE ScannerError(s, c, InStringEscape)
      [] s.step \in {"stateInStringEscU", "stateInStringEscU1",
                     "stateInStringEscU12", "stateInStringEscU123"} ->
            IF IsHexDigit(c)
            THEN [s EXCEPT !.step =
                      CASE s.step = "stateInStringEscU" -> "stateInStringEscU1"
                        [] s.step = "stateInStringEscU1" -> "stateInStringEscU12"
                        [] s.step = "stateInStringEscU12" -> "stateInStringEscU123"
                        [] OTHER -> "stateInString"]
            ELSE ScannerError(s, c, InUnicodeEscape)
      [] s.step = "stateNeg" ->
            IF c = "0" THEN [s EXCEPT !.step = "state0"]
            ELSE IF IsDigit(c) THEN [s EXCEPT !.step = "state1"]
            ELSE ScannerError(s, c, InNumericLiteral)
      [] s.step = "state1" ->
            IF IsDigit(c) THEN s ELSE state0(s, c)
      [] s.step = "state0" -> state0(s, c)
      [] s.step = "stateDot" ->
            IF IsDigit(c) THEN [s EXCEPT !.step = "stateDot0"]
            ELSE ScannerError(s, c, AfterDecimalPoint)
      [] s.step = "stateDot0" ->
            IF IsDigit(c) THEN s
            ELSE IF c \in {"e", "E"} THEN [s EXCEPT !.step = "stateE"]
            ELSE stateEndValue(s, c)
      [] s.step = "stateE" ->
            IF c \in {"+", "-"} THEN [s EXCEPT !.step = "stateESign"]
            ELSE stateESign(s, c)
      [] s.step = "stateESign" -> stateESign(s, c)
      [] s.step = "stateE0" ->
            IF IsDigit(c) THEN s ELSE stateEndValue(s, c)
      [] s.step \in DOMAIN LiteralStates ->
            IF c = LiteralStates[s.step][1]
            THEN [s EXCEPT !.step = LiteralStates[s.step][2]]
            ELSE ScannerError(s, c, LiteralStates[s.step][3]
                                    \o <<LiteralStates[s.step][1], "'", ")">>)
      [] OTHER -> s

\* scanner.eof
ScannerEof(s) ==
    IF s.err # NoError THEN s.err
    ELSE IF s.endTop THEN NoError
    ELSE With(ScannerStep(s, " "), LAMBDA t :
              IF t.endTop THEN NoError
              ELSE IF t.err = NoError THEN Error("json", UnexpectedEnd)
              ELSE t.err)

\* checkValid's loop over the bytes d[a..b], up to the first error.
RECURSIVE ScanBytes(_, _, _, _)
ScanBytes(s, d, a, b) ==
    IF a > b THEN s
    ELSE IF a = b
    THEN With(s, LAMBDA t : IF t.err # NoError THEN t ELSE ScannerStep(t, d[a]))
    ELSE With(ScanBytes(s, d, a, (a + b) \div 2), LAMBDA t :
              IF t.err # NoError THEN t
              ELSE ScanBytes(t, d, ((a + b) \div 2) + 1, b))

\* checkValid: nil, or the SyntaxError of the first byte the scanner refuses.
checkValid(document) ==
    With(document, LAMBDA d : ScannerEof(ScanBytes(ResetScanner, d, 1, Len(d))))


-----------------------------------------------------------------------------
(* encoding/json, the decoder: json.Unmarshal(body, &data) for a struct of  *)
(* string fields. It reads a document that checkValid accepted.              *)

\* The least position j in i..n with P(j), or n + 1.
FirstFrom(i, n, P(_)) ==
    With({j \in i..n : P(j)}, LAMBDA S :
         IF S = {} THEN n + 1 ELSE CHOOSE j \in S : \A k \in S : j <= k)

\* getu4: the value of the escape \uXXXX at position r of s, or -1.
getu4(s, r) ==
    IF \/ Len(s) - r + 1 < 6
       \/ s[r] # "\\"
       \/ s[r + 1] # "u"
       \/ \E k \in 2..5 : ~IsHexDigit(s[r + k])
    THEN -1
    ELSE LET hex(c) == IF IsDigit(c) THEN DigitValue(c)
                       ELSE IF c \in {"a", "A"} THEN 10
                       ELSE IF c \in {"b", "B"} THEN 11
                       ELSE IF c \in {"c", "C"} THEN 12
                       ELSE IF c \in {"d", "D"} THEN 13
                       ELSE IF c \in {"e", "E"} THEN 14
                       ELSE 15
         IN  hex(s[r + 2]) * 4096 + hex(s[r + 3]) * 256 + hex(s[r + 4]) * 16
             + hex(s[r + 5])

\* utf16.IsSurrogate
IsSurrogate(r) ==
    55296 <= r /\ r < 57344

\* utf16.DecodeRune
DecodeSurrogates(r1, r2) ==
    IF 55296 <= r1 /\ r1 < 56320 /\ 56320 <= r2 /\ r2 < 57344
    THEN (r1 - 55296) * 1024 + (r2 - 56320) + 65536
    ELSE RuneError

\* One turn of the loop of unquoteBytes, at position r of the literal s whose
\* text ends at n: st is [r, t, ok], the position to read next, the text
\* written and whether the literal is well formed so far.
unquoteAt(st, s, n) ==
    LET r == st.r
        put(bs, size) == [st EXCEPT !.t = st.t \o bs, !.r = r + size]
        fail == [st EXCEPT !.ok = FALSE]
    IN  IF s[r] = "\\" THEN
            IF r + 1 > n THEN fail
            ELSE IF s[r + 1] \in {"\"", "\\", "/", "'"} THEN put(<<s[r + 1]>>, 2)
            ELSE IF s[r + 1] = "b" THEN put(<<Bytes[8 + 1]>>, 2)
            ELSE IF s[r + 1] = "f" THEN put(<<"\f">>, 2)
            ELSE IF s[r + 1] = "n" THEN put(<<"\n">>, 2)
            ELSE IF s[r + 1] = "r" THEN put(<<"\r">>, 2)
            ELSE IF s[r + 1] = "t" THEN put(<<"\t">>, 2)
            ELSE IF s[r + 1] = "u" THEN
                With(getu4(s, r), LAMBDA rr :
                     IF rr < 0 THEN fail
                     ELSE IF IsSurrogate(rr)
                     THEN With(DecodeSurrogates(rr, getu4(s, r + 6)), LAMBDA dec :
                               IF dec # RuneError THEN put(EncodeRune(dec), 12)
                               ELSE put(EncodeRune(RuneError), 6))
                     ELSE put(EncodeRune(rr), 6))
            ELSE fail
        ELSE IF s[r] = "\"" \/ s[r] \in ControlBytes THEN fail
        ELSE IF s[r] \in AsciiBytes THEN put(<<s[r]>>, 1)
        ELSE With(DecodeRune(s, r), LAMBDA u : put(EncodeRune(u.rune), u.size))

\* The loop of unquoteBytes over the positions a..b of the literal s.
RECURSIVE unquoteLoop(_, _, _, _, _)
unquoteLoop(st, s, n, a, b) ==
    IF a > b THEN st
    ELSE IF a = b
    THEN With(st, LAMBDA t : IF ~t.ok \/ t.r # a THEN t ELSE unquoteAt(t, s, n))
    ELSE With(unquoteLoop(st, s, n, a, (a + b) \div 2), LAMBDA t :
              IF ~t.ok THEN t
              ELSE unquoteLoop(t, s, n, ((a + b) \div 2) + 1, b))

\* unquoteBytes: the text of the string literal s, its quotes included:
\* [ok, t]. Escapes are decoded and malformed UTF-8 becomes RuneError.
unquoteBytes(literal) ==
    With(literal, LAMBDA s :
         IF Len(s) < 2 \/ s[1] # "\"" \/ s[Len(s)] # "\""
         THEN [ok |-> FALSE, t |-> << >>]
         ELSE With(unquoteLoop([r |-> 2, t |-> << >>, ok |-> TRUE], s,
                               Len(s) - 1, 2, Len(s) - 1),
                   LAMBDA st : [ok |-> st.ok, t |-> IF st.ok THEN st.t ELSE << >>]))

\* The JSON type of the value that begins with the byte c.
ValueType(c) ==
    CASE c = "{" -> "object"
      [] c = "[" -> "array"
      [] c = "\"" -> "string"
      [] c \in {"t", "f"} -> "bool"
      [] c = "n" -> "null"
      [] OTHER -> "number"

\* What the decoder notes at the byte c, at position j, before the scanner
\* steps over it.
DecoderNote(s, c, j) ==
    LET depth == Len(s.parseState)
        last == Len(s.members)
    IN  IF depth = 0
        THEN IF s.step = "stateBeginValue" /\ ~isSpace(c)
             THEN [s EXCEPT !.top = ValueType(c)]
             ELSE s
        ELSE IF depth > 1 THEN s
        ELSE IF s.step \in {"stateBeginStringOrEmpty", "stateBeginString"} /\ c = "\""
        THEN [s EXCEPT !.members = Append(s.members,
                           [ks |-> j, ke |-> 0, vt |-> "", vs |-> 0, ve |-> 0])]
        ELSE IF s.step = "stateInString" /\ c = "\""
                /\ s.parseState[1] = "parseObjectKey"
        THEN [s EXCEPT !.members[last].ke = j]
        ELSE IF s.step = "stateInString" /\ c = "\""
                /\ s.parseState[1] = "parseObjectValue"
        THEN [s EXCEPT !.members[last].ve = j]
        ELSE IF s.step = "stateBeginValue" /\ ~isSpace(c)
                /\ s.parseState[1] = "parseObjectValue"
        THEN [s EXCEPT !.members[last].vt = ValueType(c), !.members[last].vs = j]
        ELSE s

\* The decoder's walk over the bytes d[a..b].
RECURSIVE DecodeBytes(_, _, _, _)
DecodeBytes(s, d, a, b) ==
    IF a > b THEN s
    ELSE IF a = b
    THEN With(s, LAMBDA t : ScannerStep(DecoderNote(t, d[a], a), d[a]))
    ELSE With(DecodeBytes(s, d, a, (a + b) \div 2), LAMBDA t :
              DecodeBytes(t, d, ((a + b) \div 2) + 1, b))

\* The value of a document: its type and, of an object, the members in the
\* order of the document, each with its key k and its value v, a type t and
\* the text s of a string.
ParseValue(document) ==
    With(document, LAMBDA d :
    With(DecodeBytes(ResetScanner, d, 1, Len(d)), LAMBDA s :
         [t |-> s.top,
          m |-> [i \in 1..Len(s.members) |->
                   LET x == s.members[i]
                   IN  [k |-> unquoteBytes(SubSeq(d, x.ks, x.ke)).t,
                        v |-> [t |-> x.vt,
                               s |-> IF x.vt = "string"
                                     THEN unquoteBytes(SubSeq(d, x.vs, x.ve)).t
                                     ELSE << >>]]]]))


\* The struct types: their name, and the json tag of each field.
KeyUploadUrl ==
    <<"u", "p", "l", "o", "a", "d", "_", "u", "r", "l">>
KeyId ==
    <<"i", "d">>
KeyStatus ==
    <<"s", "t", "a", "t", "u", "s">>
KeyText ==
    <<"t", "e", "x", "t">>
KeyError ==
    <<"e", "r", "r", "o", "r">>
NameUploadLocalFileResponse ==
    <<"U", "p", "l", "o", "a", "d", "L", "o", "c", "a", "l", "F", "i", "l", "e", "R", "e", "s", "p", "o", "n", "s", "e">>
NameTranscriptResponse ==
    <<"T", "r", "a", "n", "s", "c", "r", "i", "p", "t", "R", "e", "s", "p", "o", "n", "s", "e">>
PackageName ==
    <<"a", "s", "s", "e", "m", "b", "l", "y", "a", "i">>
UploadLocalFileResponse ==
    [name |-> NameUploadLocalFileResponse, fields |-> [UploadUrl |-> KeyUploadUrl]]

TranscriptResponse ==
    [name |-> NameTranscriptResponse,
     fields |-> [Id |-> KeyId, Status |-> KeyStatus, Text |-> KeyText,
                 Error |-> KeyError]]

\* var data T: every string field empty.
ZeroValue(T) ==
    [f \in DOMAIN T.fields |-> << >>]

ToUpper(c) ==
    IF \E k \in 1..26 : LowerCase[k] = c
    THEN UpperCase[CHOOSE k \in 1..26 : LowerCase[k] = c]
    ELSE c

\* One turn of the loop that folds a key: ASCII letters go to upper case;
\* of the other runes, U+212A (Kelvin sign) and U+017F (long s) are in the
\* fold sets of K and S, and no other folds to an ASCII character.
foldAt(st, key) ==
    IF key[st.r] \in AsciiBytes
    THEN [r |-> st.r + 1, t |-> st.t \o <<ToUpper(key[st.r])>>]
    ELSE With(DecodeRune(key, st.r), LAMBDA u :
              [r |-> st.r + u.size,
               t |-> st.t \o (IF u.rune = 8490 THEN <<"K">>
                              ELSE IF u.rune = 383 THEN <<"S">>
                              ELSE SubSeq(key, st.r, st.r + u.size - 1))])

RECURSIVE foldLoop(_, _, _, _)
foldLoop(st, key, a, b) ==
    IF a > b THEN st
    ELSE IF a = b
    THEN With(st, LAMBDA t : IF t.r # a THEN t ELSE foldAt(t, key))
    ELSE With(foldLoop(st, key, a, (a + b) \div 2), LAMBDA t :
              foldLoop(t, key, ((a + b) \div 2) + 1, b))

\* The key folds to the ASCII name: the decoder takes the key for the name
\* of a field when no field has the key for its exact name.
foldsToName(key, name) ==
    With(key, LAMBDA k : foldLoop([r |-> 1, t |-> << >>], k, 1, Len(k)).t)
        = [i \in 1..Len(name) |-> ToUpper(name[i])]

\* The members of the object that address the field f of T.
FieldMembers(T, f, m) ==
    {k \in 1..Len(m) : m[k].k = T.fields[f] \/ foldsToName(m[k].k, T.fields[f])}

\* A string field takes the last string given for it; null leaves it alone.
FieldValue(T, f, m) ==
    With({k \in FieldMembers(T, f, m) : m[k].v.t = "string"}, LAMBDA set :
         IF set = {} THEN << >>
         ELSE m[CHOOSE k \in set : \A j \in set : j <= k].v.s)

\* The members that address a field with a value that is neither a string
\* nor null: each is an UnmarshalTypeError, and the decoder goes on.
TypeMismatches(T, m) ==
    {k \in 1..Len(m) : /\ m[k].v.t \notin {"string", "null"}
                       /\ \E f \in DOMAIN T.fields : k \in FieldMembers(T, f, m)}

CannotUnmarshal ==
    <<"j", "s", "o", "n", ":", " ", "c", "a", "n", "n", "o", "t", " ", "u", "n", "m", "a", "r", "s", "h", "a", "l", " ">>
IntoGoValue ==
    <<" ", "i", "n", "t", "o", " ", "G", "o", " ", "v", "a", "l", "u", "e", " ", "o", "f", " ", "t", "y", "p", "e", " ">>
IntoGoStructField ==
    <<" ", "i", "n", "t", "o", " ", "G", "o", " ", "s", "t", "r", "u", "c", "t", " ", "f", "i", "e", "l", "d", " ">>
OfTypeString ==
    <<" ", "o", "f", " ", "t", "y", "p", "e", " ", "s", "t", "r", "i", "n", "g">>
ValueNames ==
    [number |-> <<"n", "u", "m", "b", "e", "r">>,
     bool |-> <<"b", "o", "o", "l">>,
     string |-> <<"s", "t", "r", "i", "n", "g">>,
     array |-> <<"a", "r", "r", "a", "y">>,
     object |-> <<"o", "b", "j", "e", "c", "t">>]

\* UnmarshalTypeError.Error() for the value v given to the field of tag
\* name of T, or for the document when name is empty.
UnmarshalTypeError(v, T, name) ==
    Error("json",
          IF name = << >>
          THEN CannotUnmarshal \o ValueNames[v.t] \o IntoGoValue
               \o PackageName \o <<".">> \o T.name
          ELSE CannotUnmarshal \o ValueNames[v.t] \o IntoGoStructField
               \o T.name \o <<".">> \o name \o OfTypeString)

\* json.Unmarshal(body, &data): [ok, err, data], err the error returned (the
\* first one saved) and data the struct as the decoder leaves it.
Unmarshal(body, T) ==
    With(checkValid(body), LAMBDA e :
         IF e # NoError THEN [ok |-> FALSE, err |-> e, data |-> ZeroValue(T)]
         ELSE With(ParseValue(body), LAMBDA doc :
              IF doc.t = "null"
              THEN [ok |-> TRUE, err |-> NoError, data |-> ZeroValue(T)]
              ELSE IF doc.t # "object"
              THEN [ok |-> FALSE, err |-> UnmarshalTypeError(doc, T, << >>),
                    data |-> ZeroValue(T)]
              ELSE With(TypeMismatches(T, doc.m), LAMBDA bad :
                   LET first == CHOOSE k \in bad : \A j \in bad : k <= j
                       field == CHOOSE f \in DOMAIN T.fields :
                                    first \in FieldMembers(T, f, doc.m)
                   IN  [ok |-> bad = {},
                        err |-> IF bad = {} THEN NoError
                                ELSE UnmarshalTypeError(doc.m[first].v, T,
                                                        T.fields[field]),
                        data |-> [f \in DOMAIN T.fields |->
                                      FieldValue(T, f, doc.m)]])))

-----------------------------------------------------------------------------
(* fmt.Errorf(string(body)): the body is the format string and there are no *)
(* operands (fmt's doPrintf with len(a) = 0).                                *)

NoVerbString ==
    <<"%", "!", "(", "N", "O", "V", "E", "R", "B", ")">>
BadWidthString ==
    <<"%", "!", "(", "B", "A", "D", "W", "I", "D", "T", "H", ")">>
BadPrecString ==
    <<"%", "!", "(", "B", "A", "D", "P", "R", "E", "C", ")">>
MissingString ==
    <<"(", "M", "I", "S", "S", "I", "N", "G", ")">>
BadIndexString ==
    <<"(", "B", "A", "D", "I", "N", "D", "E", "X", ")">>
\* tooLarge
tooLarge(x) ==
    x > 1000000 \/ x < -1000000

\* One turn of the loop of parsenum, at position j: st is [num, isnum,
\* newi, stop].
parsenumAt(st, s, j, end) ==
    IF ~IsDigit(s[j]) THEN [st EXCEPT !.stop = TRUE]
    ELSE IF tooLarge(st.num)
    THEN [num |-> 0, isnum |-> FALSE, newi |-> end, stop |-> TRUE]
    ELSE [num |-> st.num * 10 + DigitValue(s[j]), isnum |-> TRUE, newi |-> j + 1,
          stop |-> FALSE]

RECURSIVE parsenumLoop(_, _, _, _, _)
parsenumLoop(st, s, end, a, b) ==
    IF a > b THEN st
    ELSE IF a = b
    THEN With(st, LAMBDA t : IF t.stop THEN t ELSE parsenumAt(t, s, a, end))
    ELSE With(parsenumLoop(st, s, end, a, (a + b) \div 2), LAMBDA t :
              IF t.stop THEN t
              ELSE parsenumLoop(t, s, end, ((a + b) \div 2) + 1, b))

\* parsenum: the number in s[from..end-1]: [num, isnum, newi]. A number that
\* grows too large gives up at end.
parsenum(s, from, end) ==
    IF from >= end THEN [num |-> 0, isnum |-> FALSE, newi |-> end]
    ELSE With(parsenumLoop([num |-> 0, isnum |-> FALSE, newi |-> from,
                            stop |-> FALSE], s, end, from, end - 1),
              LAMBDA st : [num |-> st.num, isnum |-> st.isnum, newi |-> st.newi])

\* The first position at or after i that holds no flag.
SkipFlags(f, i) ==
    FirstFrom(i, Len(f), LAMBDA j : f[j] \notin {"#", "0", "+", "-", " "})

\* The position of the first "]" at or after i, 0 when there is none.
ClosingBracket(f, i) ==
    With(FirstFrom(i, Len(f), LAMBDA j : f[j] = "]"), LAMBDA c :
         IF c > Len(f) THEN 0 ELSE c)

\* argNumber with no operands: an explicit index "[n]" is always out of range.
\* pos: where the scan continues; found: parseArgNumber read an index;
\* bad: goodArgNum was cleared.
ArgNumber(f, i) ==
    IF i > Len(f) \/ f[i] # "[" THEN [pos |-> i, found |-> FALSE, bad |-> FALSE]
    ELSE With(IF Len(f) - i + 1 < 3 THEN 0 ELSE ClosingBracket(f, i + 1), LAMBDA c :
              IF c = 0 THEN [pos |-> i + 1, found |-> FALSE, bad |-> TRUE]
              ELSE With(parsenum(f, i + 1, c), LAMBDA p :
                        [pos |-> c + 1, found |-> p.isnum /\ p.newi = c,
                         bad |-> TRUE]))

\* The width of a verb, scanned after the index a1: [pos, after, bad, out].
FormatWidth(f, a1) ==
    IF a1.pos <= Len(f) /\ f[a1.pos] = "*"
    THEN [pos |-> a1.pos + 1, after |-> FALSE, bad |-> a1.bad, out |-> BadWidthString]
    ELSE With(parsenum(f, a1.pos, Len(f) + 1), LAMBDA w :
              [pos |-> w.newi, after |-> a1.found,
               bad |-> a1.bad \/ (a1.found /\ w.isnum), out |-> << >>])

\* The precision of a verb, scanned after the width w: [pos, after, bad, out].
FormatPrecision(f, w) ==
    IF ~(w.pos <= Len(f) /\ f[w.pos] = ".") THEN w
    ELSE With(ArgNumber(f, w.pos + 1), LAMBDA a2 :
              IF a2.pos <= Len(f) /\ f[a2.pos] = "*"
              THEN [pos |-> a2.pos + 1, after |-> FALSE,
                    bad |-> w.bad \/ w.after \/ a2.bad, out |-> w.out \o BadPrecString]
              ELSE [pos |-> parsenum(f, a2.pos, Len(f) + 1).newi, after |-> a2.found,
                    bad |-> w.bad \/ w.after \/ a2.bad, out |-> w.out])

\* One verb, from the position i after its "%": [out, pos].
FormatVerb(f, i) ==
    With(FormatWidth(f, ArgNumber(f, SkipFlags(f, i))), LAMBDA w :
    With(FormatPrecision(f, w), LAMBDA p :
    With(IF p.after THEN [pos |-> p.pos, found |-> TRUE, bad |-> FALSE]
         ELSE ArgNumber(f, p.pos), LAMBDA a3 :
         IF a3.pos > Len(f) THEN [out |-> p.out \o NoVerbString, pos |-> a3.pos]
         ELSE With(DecodeRune(f, a3.pos), LAMBDA verb :
              IF verb.rune = 37 THEN [out |-> p.out \o <<"%">>, pos |-> a3.pos + 1]
              ELSE [out |-> p.out \o <<"%", "!">> \o EncodeRune(verb.rune)
                            \o (IF p.bad \/ a3.bad THEN BadIndexString
                                ELSE MissingString),
                    pos |-> a3.pos + verb.size]))))

\* The loop of doPrintf over the positions a..b of the format: st is
\* [next, out], the position to read next and the text written.
RECURSIVE doPrintf(_, _, _, _)
doPrintf(st, f, a, b) ==
    IF a > b THEN st
    ELSE IF a = b
    THEN With(st, LAMBDA t :
              IF t.next # a THEN t
              ELSE IF f[a] # "%" THEN [next |-> a + 1, out |-> t.out \o <<f[a]>>]
              ELSE With(FormatVerb(f, a + 1), LAMBDA r :
                        [next |-> r.pos, out |-> t.out \o r.out]))
    ELSE With(doPrintf(st, f, a, (a + b) \div 2), LAMBDA t :
              doPrintf(t, f, ((a + b) \div 2) + 1, b))

Sprintf(format) ==
    With(format, LAMBDA f :
         doPrintf([next |-> 1, out |-> << >>], f, 1, Len(f)).out)

\* time.Duration.String of d ticks, a whole number of seconds.
DurationString(d) ==
    LET u == TickSeconds * (IF d < 0 THEN -d ELSE d)
        h == u \div 3600
        m == (u \div 60) % 60
        s == u % 60
    IN  (IF d < 0 THEN <<"-">> ELSE << >>)
        \o (IF h > 0 THEN ItoaNat(h) \o <<"h">> ELSE << >>)
        \o (IF h > 0 \/ m > 0 THEN ItoaNat(m) \o <<"m">> ELSE << >>)
        \o ItoaNat(s) \o <<"s">>


-----------------------------------------------------------------------------
(* HTTP: the answers of client.Do, and getBody and getData of client.go.    *)
(* The texts of the errors that net/http, net/url and io make are the       *)
(* environment's; the model takes one text for each.                        *)

RequestErrorText ==
    <<"m", "i", "s", "s", "i", "n", "g", " ", "p", "r", "o", "t", "o", "c", "o", "l", " ", "s", "c", "h", "e", "m", "e">>
TransportErrorText ==
    <<"c", "o", "n", "n", "e", "c", "t", "i", "o", "n", " ", "r", "e", "f", "u", "s", "e", "d">>
ReadErrorText ==
    <<"u", "n", "e", "x", "p", "e", "c", "t", "e", "d", " ", "E", "O", "F">>
\* An HTTP response as client.Do returns it. ReadFails: io.ReadAll on the body
\* returns an error.
Response(code, body, readFails) ==
    [failed |-> FALSE, StatusCode |-> code, Body |-> body, ReadFails |-> readFails]

\* client.Do returned an error and no response.
TransportError ==
    [failed |-> TRUE, StatusCode |-> 0, Body |-> << >>, ReadFails |-> FALSE]

getBody(response) ==
    IF response.ReadFails
    THEN [err |-> Error("read", ReadErrorText), body |-> << >>]
    ELSE [err |-> NoError, body |-> response.Body]

getData(response, T) ==
    With(getBody(response), LAMBDA b :
         IF b.err # NoError THEN [err |-> b.err, data |-> ZeroValue(T)]
         ELSE IF ~isValidStatus(response.StatusCode)
              THEN [err |-> Error("http", Sprintf(b.body)), data |-> ZeroValue(T)]
         ELSE With(Unmarshal(b.body, T), LAMBDA u :
                   IF ~u.ok THEN [err |-> u.err, data |-> ZeroValue(T)]
                   ELSE [err |-> NoError, data |-> u.data]))

-----------------------------------------------------------------------------
(* The statuses, messages and defaults of client.go *)

Err ==
    <<"e", "r", "r", "o", "r">>

Queued ==
    <<"q", "u", "e", "u", "e", "d">>

Completed ==
    <<"c", "o", "m", "p", "l", "e", "t", "e", "d">>

NoIdMessage ==
    <<"r", "e", "s", "p", "o", "n", "s", "e", " ", "d", "i", "d", " ", "n", "o", "t", " ", "i", "n", "c", "l", "u", "d", "e", " ", "a", "n", " ", "i", "d">>

TimeoutPrefix ==
    <<"t", "i", "m", "e", "o", "u", "t", ",", " ", "t", "r", "a", "n", "s", "c", "r", "i", "p", "t", "i", "o", "n", " ", "n", "o", "t", " ", "f", "i", "n", "i", "s", "h", "e", "d", " ", "i", "n", " ">>

\* pollSettings == nil: time.Second * 5 and time.Minute, in ticks.
DefaultPollSettings ==
    [frequency |-> 5 \div TickSeconds, timeout |-> 60 \div TickSeconds]

-----------------------------------------------------------------------------
(* The answers the service gives in the model *)

BodyUploadOk ==
    <<"{", "\"", "u", "p", "l", "o", "a", "d", "_", "u", "r", "l", "\"", ":", "\"", "X", "\"", "}">>

BodyUploadBadType ==
    <<"{", "\"", "u", "p", "l", "o", "a", "d", "_", "u", "r", "l", "\"", ":", "1", "}">>

BodyEmpty ==
    << >>

BodyEmptyObject ==
    <<"{", "}">>

BodyCompleted ==
    <<"{", "\"", "i", "d", "\"", ":", "\"", "J", "\"", ",", "\"", "s", "t", "a", "t", "u", "s", "\"", ":", "\"", "c", "o", "m", "p", "l", "e", "t", "e", "d", "\"", ",", "\"", "t", "e", "x", "t", "\"", ":", "\"", "T", "\"", "}">>

BodyCompletedBad ==
    <<"{", "\"", "i", "d", "\"", ":", "\"", "J", "\"", ",", "\"", "s", "t", "a", "t", "u", "s", "\"", ":", "\"", "c", "o", "m", "p", "l", "e", "t", "e", "d", "\"", ",", "}">>

BodyError ==
    <<"{", "\"", "i", "d", "\"", ":", "\"", "J", "\"", ",", "\"", "s", "t", "a", "t", "u", "s", "\"", ":", "\"", "e", "r", "r", "o", "r", "\"", ",", "\"", "e", "r", "r", "o", "r", "\"", ":", "\"", "E", "\"", "}">>

BodyErrorNoId ==
    <<"{", "\"", "s", "t", "a", "t", "u", "s", "\"", ":", "\"", "e", "r", "r", "o", "r", "\"", ",", "\"", "e", "r", "r", "o", "r", "\"", ":", "\"", "E", "\"", "}">>

BodyErrorEmptyId ==
    <<"{", "\"", "i", "d", "\"", ":", "\"", "\"", ",", "\"", "s", "t", "a", "t", "u", "s", "\"", ":", "\"", "e", "r", "r", "o", "r", "\"", ",", "\"", "e", "r", "r", "o", "r", "\"", ":", "\"", "E", "\"", "}">>

BodyQueued ==
    <<"{", "\"", "i", "d", "\"", ":", "\"", "J", "\"", ",", "\"", "s", "t", "a", "t", "u", "s", "\"", ":", "\"", "q", "u", "e", "u", "e", "d", "\"", "}">>

BodyProcessing ==
    <<"{", "\"", "i", "d", "\"", ":", "\"", "J", "\"", ",", "\"", "s", "t", "a", "t", "u", "s", "\"", ":", "\"", "p", "r", "o", "c", "e", "s", "s", "i", "n", "g", "\"", "}">>

BodyPercent ==
    <<"5", "0", "%">>

BodyPercentVerb ==
    <<"%", "d", " ", "E">>

Bodies ==
    {BodyUploadOk, BodyUploadBadType, BodyEmpty, BodyEmptyObject, BodyCompleted,
     BodyCompletedBad, BodyError, BodyErrorNoId, BodyErrorEmptyId, BodyQueued,
     BodyProcessing, BodyPercent, BodyPercentVerb}

\* Every body with status 200; a not-found status and a status that is not an
\* HTTP status code with some of them; a failed exchange; an unreadable body.
Responses ==
    {TransportError, Response(200, BodyEmpty, TRUE)}
        \cup {Response(200, b, FALSE) : b \in Bodies}
        \cup {Response(404, b, FALSE) :
                 b \in {BodyEmpty, BodyQueued, BodyPercent, BodyPercentVerb}}
        \cup {Response(2000, b, FALSE) :
                 b \in {BodyUploadOk, BodyCompleted, BodyQueued, BodyPercent}}

\* The answers to the status requests of PollTranscript: of Responses, the
\* failed exchange, the unreadable body, the transcript payloads of each
\* status and a malformed one, with the three kinds of status code.
PollResponses ==
    {TransportError, Response(200, BodyEmpty, TRUE)}
        \cup {Response(200, b, FALSE) :
                 b \in {BodyCompleted, BodyCompletedBad, BodyError, BodyQueued,
                        BodyProcessing}}
        \cup {Response(404, b, FALSE) : b \in {BodyQueued, BodyPercent}}
        \cup {Response(2000, b, FALSE) : b \in {BodyCompleted, BodyQueued}}

\* The PollSettings a caller passes (the fields are unvalidated durations).
PollSettingsValues ==
    [frequency : (-1)..MaxFrequency, timeout : (-1)..MaxTimeout]


-----------------------------------------------------------------------------
(* The client *)

NoResponse ==
    Response(0, << >>, FALSE)

Init ==
    /\ pc = "idle"
    /\ op = "none"
    /\ settings = DefaultPollSettings
    /\ now = 0
    /\ start = 0
    /\ timeoutTime = 0
    /\ resp = NoResponse
    /\ data = ZeroValue(TranscriptResponse)
    /\ result = << >>
    /\ err = NoError
    /\ gets = 0
    /\ sleeps = 0
    /\ slept = {}
    /\ openBodies = 0
    /\ queuedBefore = TRUE
    /\ checkedCode = 0
    /\ checkedOk = FALSE

\* The answer is a response with a status in [200,300) that decodes into T.
Is2xx(code) ==
    200 <= code /\ code < 300

\* The answer is a 2xx response carrying status "queued".
IsQueuedAnswer(r) ==
    /\ ~r.failed
    /\ ~r.ReadFails
    /\ Is2xx(r.StatusCode)
    /\ With(Unmarshal(r.Body, TranscriptResponse),
            LAMBDA u : u.ok /\ u.data.Status = Queued)

\* getData on each answer of the model, for the payload type of the upload and
\* of the two transcript operations.
UploadData ==
    [r \in Responses \ {TransportError} |-> getData(r, UploadLocalFileResponse)]

TranscriptData ==
    [r \in Responses \ {TransportError} |-> getData(r, TranscriptResponse)]

QueuedAnswers ==
    {r \in Responses : IsQueuedAnswer(r)}

\* return res, e
Return(res, e) ==
    /\ pc' = "done"
    /\ result' = res
    /\ err' = e

\* A call begins: nothing requested, slept or left open yet.
Enter(name) ==
    /\ pc = "idle"
    /\ op' = name
    /\ sleeps' = 0
    /\ slept' = {}
    /\ queuedBefore' = TRUE

\* UploadLocalFile: badUrl is http.NewRequest failing on baseUrl + "/upload",
\* r the answer of client.Do. The deferred resp.Body.Close() closes the one
\* body received.
UploadLocalFile(badUrl, r) ==
    /\ Enter("upload")
    /\ UNCHANGED <<settings, now, start, timeoutTime, checkedCode, checkedOk>>
    /\ IF badUrl
       THEN /\ Return(<< >>, Error("request", RequestErrorText))
            /\ gets' = 0
            /\ resp' = NoResponse
            /\ data' = ZeroValue(UploadLocalFileResponse)
            /\ openBodies' = 0
       ELSE /\ gets' = 1
            /\ resp' = r
            /\ IF r.failed
               THEN /\ Return(<< >>, Error("transport", TransportErrorText))
                    /\ data' = ZeroValue(UploadLocalFileResponse)
                    /\ openBodies' = 0
               ELSE LET d == UploadData[r]
                    IN  /\ data' = d.data
                        /\ openBodies' = (0 + 1) - 1
                        /\ IF d.err # NoError
                           THEN Return(<< >>, d.err)
                           ELSE Return(d.data.UploadUrl, NoError)

\* The checks without the one on the status.
TranscriptReturnNoStatusCheck(d) ==
    IF d.Id = << >>
    THEN [result |-> << >>, err |-> Error("noid", NoIdMessage)]
    ELSE [result |-> d.Id, err |-> NoError]

\* The checks Transcript makes on the decoded payload: the id first, then the
\* status.
TranscriptReturn(d) ==
    IF d.Id = << >>
    THEN [result |-> << >>, err |-> Error("noid", NoIdMessage)]
    ELSE IF d.Status = Err
    THEN [result |-> << >>, err |-> Error("service", d.Error)]
    ELSE [result |-> d.Id, err |-> NoError]

\* Transcript: badUrl is http.NewRequest failing on baseUrl + "/transcript".
Transcript(badUrl, r) ==
    /\ Enter("transcript")
    /\ UNCHANGED <<settings, now, start, timeoutTime, checkedCode, checkedOk>>
    /\ IF badUrl
       THEN /\ Return(<< >>, Error("request", RequestErrorText))
            /\ gets' = 0
            /\ resp' = NoResponse
            /\ data' = ZeroValue(TranscriptResponse)
            /\ openBodies' = 0
       ELSE /\ gets' = 1
            /\ resp' = r
            /\ IF r.failed
               THEN /\ Return(<< >>, Error("transport", TransportErrorText))
                    /\ data' = ZeroValue(TranscriptResponse)
                    /\ openBodies' = 0
               ELSE LET d == TranscriptData[r]
                    IN  /\ data' = d.data
                        /\ openBodies' = (0 + 1) - 1
                        /\ IF d.err # NoError
                           THEN Return(<< >>, d.err)
                           ELSE Return(TranscriptReturn(d.data).result,
                                       TranscriptReturn(d.data).err)

\* A comparison that gives up one tick early.
BeforeEarly(t, u) ==
    t + 1 < u

\* time.Time.Before
Before(t, u) ==
    t < u

\* A switch without the case Queued.
PollSwitchSleepless(status) ==
    CASE status = Err -> "error"
      [] status = Completed -> "completed"
      [] OTHER -> "loop"

\* A switch without the case Completed.
PollSwitchIgnoresCompleted(status) ==
    CASE status = Err -> "error"
      [] status = Queued -> "sleep"
      [] OTHER -> "loop"

\* The switch of the poll loop: what the loop does on a decoded status. No
\* case covers another status than these three: the loop goes on at once.
PollSwitch(status) ==
    CASE status = Err -> "error"
      [] status = Completed -> "completed"
      [] status = Queued -> "sleep"
      [] OTHER -> "loop"

\* PollTranscript up to the loop: the settings (ps, or the defaults when
\* isNil), the request, the deadline from the clock reading s. The clock may
\* have moved on by d when the loop condition reads it.
PollTranscript(isNil, ps, badUrl, s, d) ==
    /\ Enter("poll")
    /\ UNCHANGED <<checkedCode, checkedOk>>
    /\ settings' = IF isNil THEN DefaultPollSettings ELSE ps
    /\ gets' = 0
    /\ resp' = NoResponse
    /\ data' = ZeroValue(TranscriptResponse)
    /\ openBodies' = 0
    /\ IF badUrl
       THEN /\ Return(<< >>, Error("request", RequestErrorText))
            /\ UNCHANGED <<now, start, timeoutTime>>
       ELSE /\ start' = s
            /\ timeoutTime' = s + settings'.timeout
            /\ now' = s + d
            /\ pc' = "check"
            /\ UNCHANGED <<result, err>>

\* for time.Now().Before(timeoutTime) { ... } and the return after the loop.
PollCheck ==
    /\ pc = "check"
    /\ IF Before(now, timeoutTime)
       THEN /\ pc' = "do"
            /\ UNCHANGED <<result, err>>
       ELSE Return(<< >>, Error("timeout", TimeoutPrefix \o DurationString(settings.timeout)))
    /\ UNCHANGED <<op, settings, now, start, timeoutTime, resp, data, gets, sleeps,
                   slept, openBodies, queuedBefore, checkedCode, checkedOk>>

\* One iteration up to the switch: client.Do(req) answering r after d ticks,
\* getData, and the case taken. No statement closes resp.Body. The model
\* follows a call for its first MaxGets requests.
PollDoWith(r, d) ==
    /\ pc = "do"
    /\ gets < MaxGets
    /\ now' = now + d
    /\ gets' = gets + 1
    /\ resp' = r
    /\ queuedBefore' = (queuedBefore /\ (gets = 0 \/ resp \in QueuedAnswers))
    /\ UNCHANGED <<op, settings, start, timeoutTime, sleeps, slept, checkedCode, checkedOk>>
    /\ IF r.failed
       THEN /\ Return(<< >>, Error("transport", TransportErrorText))
            /\ UNCHANGED <<data, openBodies>>
       ELSE LET g == TranscriptData[r]
                c == PollSwitch(g.data.Status)
            IN  /\ openBodies' = openBodies + 1
                /\ data' = g.data
                /\ IF g.err # NoError THEN Return(<< >>, g.err)
                   ELSE IF c = "error" THEN Return(<< >>, Error("service", g.data.Error))
                   ELSE IF c = "completed" THEN Return(g.data.Text, NoError)
                   ELSE /\ pc' = IF c = "sleep" THEN "sleep" ELSE "check"
                        /\ UNCHANGED <<result, err>>

PollDo ==
    \E r \in PollResponses, d \in 0..MaxDelay : PollDoWith(r, d)

\* time.Sleep(pollSettings.frequency): returns at once for a duration <= 0,
\* else after at least that long (j is what it sleeps longer).
PollSleep(j) ==
    /\ pc = "sleep"
    /\ sleeps' = sleeps + 1
    /\ slept' = slept \cup {settings.frequency}
    /\ now' = now + (IF settings.frequency > 0 THEN settings.frequency + j ELSE 0)
    /\ pc' = "check"
    /\ UNCHANGED <<op, settings, start, timeoutTime, resp, data, result, err, gets,
                   openBodies, queuedBefore, checkedCode, checkedOk>>

\* The caller takes the returned values; the client, which keeps no state of
\* a call, is ready for another one.
Returned ==
    /\ pc = "done"
    /\ pc' = "idle"
    /\ op' = "none"
    /\ settings' = DefaultPollSettings
    /\ now' = 0
    /\ start' = 0
    /\ timeoutTime' = 0
    /\ resp' = NoResponse
    /\ data' = ZeroValue(TranscriptResponse)
    /\ result' = << >>
    /\ err' = NoError
    /\ gets' = 0
    /\ sleeps' = 0
    /\ slept' = {}
    /\ openBodies' = 0
    /\ queuedBefore' = TRUE
    /\ UNCHANGED <<checkedCode, checkedOk>>

Next ==
    \/ \E badUrl \in BOOLEAN, r \in Responses : UploadLocalFile(badUrl, r)
    \/ \E badUrl \in BOOLEAN, r \in Responses : Transcript(badUrl, r)
    \/ \E isNil \in BOOLEAN, ps \in PollSettingsValues, badUrl \in BOOLEAN,
          s \in {0, MaxStart}, d \in 0..MaxDelay :
            PollTranscript(isNil, ps, badUrl, s, d)
    \/ PollCheck
    \/ PollDo
    \/ \E j \in {0, MaxDelay} : PollSleep(j)
    \/ Returned

Spec ==
    Init /\ [][Next]_vars

\* A call in progress goes on: the loop condition is evaluated, every
\* request returns and every sleep ends.
LiveSpec ==
    /\ Init
    /\ [][Next]_vars
    /\ WF_vars(PollCheck)
    /\ WF_vars(PollDo)
    /\ WF_vars(\E j \in {0, MaxDelay} : PollSleep(j))

\* isValidStatus on its own, over the codes -MaxCode..MaxCode.
StatusInit ==
    /\ pc = "idle"
    /\ op = "none"
    /\ settings = DefaultPollSettings
    /\ now = 0
    /\ start = 0
    /\ timeoutTime = 0
    /\ resp = NoResponse
    /\ data = ZeroValue(TranscriptResponse)
    /\ result = << >>
    /\ err = NoError
    /\ gets = 0
    /\ sleeps = 0
    /\ slept = {}
    /\ openBodies = 0
    /\ queuedBefore = TRUE
    /\ checkedCode \in (-MaxCode)..MaxCode
    /\ checkedOk = FALSE

CheckStatus ==
    /\ pc = "idle"
    /\ pc' = "done"
    /\ op' = "status"
    /\ checkedOk' = isValidStatus(checkedCode)
    /\ UNCHANGED <<settings, now, start, timeoutTime, resp, data, result, err, gets,
                   sleeps, slept, openBodies, queuedBefore, checkedCode>>

StatusNext ==
    CheckStatus

StatusSpec ==
    StatusInit /\ [][StatusNext]_vars


-----------------------------------------------------------------------------
(* Properties *)

\* The payload type the current operation decodes into.
Shape ==
    IF op = "upload" THEN UploadLocalFileResponse ELSE TranscriptResponse

\* A call has returned.
Done(name) ==
    pc = "done" /\ op = name

\* The last answer is an HTTP response whose body was read.
Answered ==
    gets > 0 /\ ~resp.failed /\ ~resp.ReadFails

\* The last answer is a 2xx response whose body decodes into the payload type.
GoodAnswer ==
    /\ Answered
    /\ Is2xx(resp.StatusCode)
    /\ Unmarshal(resp.Body, Shape).ok

\* The payload of the last answer.
Payload ==
    Unmarshal(resp.Body, Shape).data

\* sub occurs in s.
Contains(s, sub) ==
    \E i \in 0..(Len(s) - Len(sub)) : \A k \in 1..Len(sub) : s[i + k] = sub[k]

\* The last answer is a 2xx response with status "completed".
CompletedAnswer ==
    GoodAnswer /\ Payload.Status = Completed

\* Every answer of the current call was a 2xx response with status "queued".
AllQueued ==
    queuedBefore /\ (gets = 0 \/ resp \in QueuedAnswers)

\* The call returned the timeout error.
TimedOut ==
    Done("poll") /\ err.kind = "timeout"

\* C1: UploadLocalFile, Transcript and PollTranscript return the empty string
\* and a non-nil error whenever the answer is not a 2xx response whose body
\* decodes into the expected shape.
C1_BadAnswerIsError ==
    (pc = "done" /\ op \in {"upload", "transcript", "poll"} /\ gets > 0 /\ ~GoodAnswer)
        => (result = << >> /\ err # NoError)

\* C2 as stated: Transcript on a 2xx response with status "error" returns the
\* empty string and an error containing the payload's error text, whatever
\* the id.
C2_ErrorStatusCarriesServiceText ==
    (Done("transcript") /\ GoodAnswer /\ Payload.Status = Err)
        => (result = << >> /\ err # NoError /\ Contains(err.msg, Payload.Error))

\* C2 amended: Transcript on a 2xx response with status "error" returns the
\* empty string and an error; the error's message is the payload's error
\* text when the id is not empty, and "response did not include an id" when
\* the id is absent or empty.
C2_ErrorStatusAfterIdCheck ==
    (Done("transcript") /\ GoodAnswer /\ Payload.Status = Err)
        => /\ result = << >>
           /\ err # NoError
           /\ err.msg = IF Payload.Id = << >> THEN NoIdMessage ELSE Payload.Error

C2_Witness ==
    /\ Done("transcript")
    /\ resp = Response(200, BodyError, FALSE)
    /\ err.msg = <<"E">>

\* C3: n answers "queued" followed by "completed" with text T: the call
\* returns T and no error after n+1 requests and n sleeps, each of length
\* frequency.
C3_QueuedThenCompleted ==
    (Done("poll") /\ queuedBefore /\ CompletedAnswer)
        => /\ result = Payload.Text
           /\ err = NoError
           /\ sleeps = gets - 1
           /\ slept \subseteq {settings.frequency}

C3_Witness ==
    /\ Done("poll")
    /\ queuedBefore
    /\ CompletedAnswer
    /\ settings.frequency = 0
    /\ gets = 3
    /\ sleeps = 2
    /\ result = <<"T">>

\* C4: the call sleeps between any two of its requests: it has never issued
\* more requests than one more than the sleeps it made.
C4_SleepBetweenRequests ==
    op = "poll" => gets <= sleeps + 1

\* C5: a transport error, a non-2xx response or a decode failure at any
\* iteration ends the call at once with that error and an empty result.
C5_BadAnswerAborts ==
    (op = "poll" /\ gets > 0 /\ ~GoodAnswer)
        => (pc = "done" /\ result = << >> /\ err # NoError)

\* C6: the timeout error is only returned when the clock is no longer
\* before start + timeout, with the empty string, and it names the configured
\* timeout. While every answer is "queued", each request returning and the
\* clock advancing: with a positive frequency (every sleep moves the clock
\* on) the call eventually returns the timeout error; and with any settings,
\* once the clock is no longer before start + timeout the call returns the
\* timeout error.
C6_TimeoutOnlyAfterDeadline ==
    /\ [](TimedOut =>
            /\ ~(now < start + settings.timeout)
            /\ result = << >>
            /\ err.msg = TimeoutPrefix \o DurationString(settings.timeout))
    /\ ((op = "poll" /\ pc # "done" /\ settings.frequency > 0 /\ AllQueued)
           ~> (TimedOut \/ ~AllQueued))
    /\ ((op = "poll" /\ pc # "done" /\ AllQueued /\ ~(now < start + settings.timeout))
           ~> TimedOut)

C6_Witness ==
    /\ TimedOut
    /\ AllQueued
    /\ gets = 1
    /\ sleeps = 1
    /\ settings.timeout > 0
    /\ settings.timeout < settings.frequency

\* C7 as stated: when every request of a call is answered "completed" with
\* text T, the call returns T and no error, whatever the PollSettings.
C7_CompletedJobAlwaysReturnsText ==
    (Done("poll") /\ err.kind # "request" /\ (gets = 0 \/ (gets = 1 /\ CompletedAnswer)))
        => (gets = 1 /\ result = Payload.Text /\ err = NoError)

\* C7 amended: an answer "completed" with text T to the first request ends
\* the call with T and no error; a call whose deadline is already reached at
\* the first test of its loop issues no request and returns the empty string
\* with the timeout error; and a call returns without any request only so.
C7_CompletedJobReturnsTextBeforeDeadline ==
    /\ []((op = "poll" /\ gets = 1 /\ CompletedAnswer)
            => (pc = "done" /\ result = Payload.Text /\ err = NoError))
    /\ []((Done("poll") /\ gets = 0 /\ err.kind # "request")
            => (TimedOut /\ result = << >> /\ ~(now < start + settings.timeout)))
    /\ [][(op = "poll" /\ pc = "check" /\ gets = 0
             /\ ~(now < start + settings.timeout))
            => (pc' = "done" /\ err'.kind = "timeout" /\ result' = << >> /\ gets' = 0)]_vars

C7_Witness ==
    /\ Done("poll")
    /\ settings = DefaultPollSettings
    /\ gets = 1
    /\ resp = Response(200, BodyCompleted, FALSE)
    /\ result = <<"T">>
    /\ err = NoError

\* C8: for a non-2xx response the returned error's message is the response
\* body, character for character.
C8_ErrorMessageIsBody ==
    (pc = "done" /\ op \in {"upload", "transcript", "poll"} /\ Answered
        /\ ~Is2xx(resp.StatusCode))
        => err.msg = resp.Body

\* C9: isValidStatus(code) is true exactly when 200 <= code < 300.
C9_ValidStatusIs2xx ==
    op = "status" => (checkedOk <=> Is2xx(checkedCode))

\* C10: when a call returns, every response body it received is closed.
C10_BodiesClosedOnReturn ==
    pc = "done" => openBodies = 0

====
